---- MODULE Spec2Model ----
(***************************************************************************)
(* VMX host (src/src/App.tsx): the delta-heat comparison of two scenario   *)
(* results, computed by the `delta` memo of App, the view handlers that    *)
(* feed it, and the host state behind the two results: the persisted       *)
(* selections, the area, compare mode and the evaluation error boundary.   *)
(*                                                                         *)
(* Numbers.  Costs are fixed-point: a cost c stands for c / CostScale      *)
(* currency units, so the literal 1 of the source is CostScale.  A         *)
(* threshold t stands for the fraction t / ThrDen.  A fraction such as     *)
(* absFracOfATotal is kept as the pair <<numerator, denominator>> and      *)
(* compared by cross-multiplication; floating-point rounding is not        *)
(* modelled.  Array.prototype.sort is the stable sort of ES2019.  The      *)
(* fields label, pctOfTotal, deltaPct and currency are carried through by  *)
(* the source untouched by any decision and are left out.                  *)
(***************************************************************************)
EXTENDS Integers, Sequences, FiniteSets, TLC

VARIABLES compareMode, resultA, resultB, deltaMediumThr, deltaHighThr,
          deltaSort, deltaDriversOnly, delta,
          areaSqft, selA, selB, errorA, errorB, edits

\* The state behind the two results: the inputs of the evaluator, the error
\* each evaluation left, and the number of band edits made so far.
hostVars == <<areaSqft, selA, selB, errorA, errorB, edits>>

vars == <<compareMode, resultA, resultB, deltaMediumThr, deltaHighThr,
          deltaSort, deltaDriversOnly, delta, hostVars>>

------------------------------------------------------------------------------
(* Bounds and units *)

MaxCost == 2

CostScale == 2

ThrDen == 1000

DefaultMediumThr == 15

DefaultHighThr == 30

\* The area of a fresh storage, and the largest area typed or stored.
DefaultAreaSqft == 15000

MaxArea == 1

\* Band edits made in one session.
MaxEdits == 2

------------------------------------------------------------------------------
(* Values *)

Null == [kind |-> "null"]

Threw == [kind |-> "threw"]

VMX_CATEGORIES == <<"c1", "c2", "c3", "c4">>

CategoryIds == {VMX_CATEGORIES[i] : i \in DOMAIN VMX_CATEGORIES}

Abs(x) == IF x < 0 THEN -x ELSE x

Min(x, y) == IF x <= y THEN x ELSE y

RECURSIVE SumCost(_)
SumCost(cats) ==
  IF cats = <<>> THEN 0 ELSE cats[1].cost + SumCost(Tail(cats))

\* A ScenarioResult listing the categories `ids` with the costs `cost`.
ScenarioResult(ids, cost) ==
  LET cats == [i \in DOMAIN ids |-> [categoryId |-> ids[i], cost |-> cost[ids[i]]]]
  IN [totalCost |-> SumCost(cats), categories |-> cats]

------------------------------------------------------------------------------
(* Array helpers *)

\* Insertion of the keyed element x into the sorted s, after every element
\* whose key is not greater: the order a stable sort gives.
RECURSIVE InsertKeyed(_, _)
InsertKeyed(s, x) ==
  IF s = <<>> THEN <<x>>
  ELSE IF x[1] < s[1][1] THEN <<x>> \o s
  ELSE <<s[1]>> \o InsertKeyed(Tail(s), x)

RECURSIVE SortKeyed(_)
SortKeyed(s) ==
  IF s = <<>> THEN <<>>
  ELSE InsertKeyed(SortKeyed(SubSeq(s, 1, Len(s) - 1)), s[Len(s)])

\* arr.sort((a, b) => key(a) - key(b)), with keys[i] the key of arr[i]:
\* stable, ascending in the key.
ArraySort(arr, keys) ==
  LET sorted == SortKeyed([i \in DOMAIN arr |-> <<keys[i], arr[i]>>])
  IN [i \in DOMAIN sorted |-> sorted[i][2]]

\* arr.slice(0, k)
Slice(arr, k) == SubSeq(arr, 1, Min(k, Len(arr)))

\* cats.find((x) => x.categoryId === id), Null for undefined
FindCategory(cats, id) ==
  IF \E i \in DOMAIN cats : cats[i].categoryId = id
  THEN cats[CHOOSE i \in DOMAIN cats :
              /\ cats[i].categoryId = id
              /\ \A j \in 1..(i - 1) : cats[j].categoryId # id]
  ELSE Null

\* order.get(id) ?? 999, with order the index of id in VMX_CATEGORIES
CategoryOrder(id) ==
  IF id \in CategoryIds
  THEN (CHOOSE i \in DOMAIN VMX_CATEGORIES : VMX_CATEGORIES[i] = id) - 1
  ELSE 999

------------------------------------------------------------------------------
(* The delta memo *)

\* Mutant: the floor max(totalCost, 1) in place of the zero guard.
ATotal_Floor(rA) == IF rA.totalCost > CostScale THEN rA.totalCost ELSE CostScale

\* const aTotal = resultA.totalCost > 0 ? resultA.totalCost : 1
ATotal(rA) == IF rA.totalCost > 0 THEN rA.totalCost ELSE CostScale

\* Mutant: the magnitude of the change, its sign lost.
DeltaCost_Abs(a, b) == Abs(b.cost - a.cost)

\* Mutant: the change taken from B to A.
DeltaCost_Swapped(a, b) == a.cost - b.cost

\* const deltaCost = b.cost - a.cost
DeltaCost(a, b) == b.cost - a.cost

Direction(deltaCost) ==
  IF deltaCost > 0 THEN "increase"
  ELSE IF deltaCost < 0 THEN "decrease"
  ELSE "flat"

\* absFrac >= thr
FracGeq(frac, thr) == frac[1] * ThrDen >= thr * frac[2]

\* Mutant: strict comparisons with the thresholds.
Heat_Strict(absFrac, mediumThr, highThr) ==
  IF absFrac[1] * ThrDen > highThr * absFrac[2] THEN "high"
  ELSE IF absFrac[1] * ThrDen > mediumThr * absFrac[2] THEN "medium"
  ELSE "low"

Heat(absFrac, mediumThr, highThr) ==
  IF FracGeq(absFrac, highThr) THEN "high"
  ELSE IF FracGeq(absFrac, mediumThr) THEN "medium"
  ELSE "low"

BaseRow(a, b, aTotal, mediumThr, highThr) ==
  LET deltaCost == DeltaCost(a, b)
      absFrac == <<Abs(deltaCost), aTotal>>
  IN [categoryId |-> a.categoryId,
      deltaCost |-> deltaCost,
      absFracOfATotal |-> absFrac,
      direction |-> Direction(deltaCost),
      heat |-> Heat(absFrac, mediumThr, highThr),
      isTopDriver |-> FALSE]

\* if (!b) throw new Error(...)
MissingInB(rA, rB) ==
  \E i \in DOMAIN rA.categories :
    FindCategory(rB.categories, rA.categories[i].categoryId) = Null

BaseRows(rA, rB, mediumThr, highThr) ==
  [i \in DOMAIN rA.categories |->
     BaseRow(rA.categories[i],
             FindCategory(rB.categories, rA.categories[i].categoryId),
             ATotal(rA), mediumThr, highThr)]

IsEligible(r) == Abs(r.deltaCost) > 0

NegAbsDelta(r) == -Abs(r.deltaCost)

NegDelta(r) == -r.deltaCost

PosDelta(r) == r.deltaCost

\* Mutant: ranking by the signed delta, Math.abs forgotten.
ByAbs_Signed(baseRows) ==
  LET arr == SelectSeq(baseRows, IsEligible)
  IN ArraySort(arr, [i \in DOMAIN arr |-> NegDelta(arr[i])])

\* eligible.sort((x, y) => Math.abs(y.deltaCost) - Math.abs(x.deltaCost))
ByAbs(baseRows) ==
  LET arr == SelectSeq(baseRows, IsEligible)
  IN ArraySort(arr, [i \in DOMAIN arr |-> NegAbsDelta(arr[i])])

\* Mutant: the last three of the ranking, byAbs.slice(-3).
TopSet_Tail(baseRows) ==
  LET byAbs == ByAbs(baseRows)
      top == SubSeq(byAbs, IF Len(byAbs) > 3 THEN Len(byAbs) - 2 ELSE 1, Len(byAbs))
  IN {top[i].categoryId : i \in DOMAIN top}

TopSet(baseRows) ==
  LET top == Slice(ByAbs(baseRows), 3)
  IN {top[i].categoryId : i \in DOMAIN top}

\* Mutant: no upgrade of a driver classified low.
UpgradedHeat_None(r, isTopDriver) == r.heat

UpgradedHeat(r, isTopDriver) ==
  IF isTopDriver /\ r.heat = "low" /\ r.absFracOfATotal[1] > 0
  THEN "medium" ELSE r.heat

MarkRows(baseRows) ==
  LET topSet == TopSet(baseRows)
  IN [i \in DOMAIN baseRows |->
        LET r == baseRows[i]
            isTopDriver == r.categoryId \in topSet
        IN [r EXCEPT !.isTopDriver = isTopDriver,
                     !.heat = UpgradedHeat(r, isTopDriver)]]

RowOrder(r) == CategoryOrder(r.categoryId)

\* Mutant: sorting by the signed delta, Math.abs forgotten.
SortImpact_Signed(rows) ==
  LET arr == rows
  IN ArraySort(arr, [i \in DOMAIN arr |-> NegDelta(arr[i])])

SortImpact(rows) ==
  LET arr == rows
  IN ArraySort(arr, [i \in DOMAIN arr |-> NegAbsDelta(arr[i])])

\* Mutant: the rows left in the order of resultA.categories.
SortCategory_None(rows) == rows

SortCategory(rows) ==
  LET arr == rows
  IN ArraySort(arr, [i \in DOMAIN arr |-> RowOrder(arr[i])])

SortRows(rows, sortMode) ==
  IF sortMode = "impact" THEN SortImpact(rows) ELSE SortCategory(rows)

IsDriver(r) == r.isTopDriver

\* Mutant: the filter keeps every changed row instead of the drivers.
FilterRows_Changed(rows, driversOnly) ==
  IF driversOnly THEN SelectSeq(rows, IsEligible) ELSE rows

FilterRows(rows, driversOnly) ==
  IF driversOnly THEN SelectSeq(rows, IsDriver) ELSE rows

IsIncrease(r) == r.deltaCost > 0

IsDecrease(r) == r.deltaCost < 0

Increases(rows) ==
  LET arr == SelectSeq(rows, IsIncrease)
  IN Slice(ArraySort(arr, [i \in DOMAIN arr |-> NegDelta(arr[i])]), 3)

Decreases(rows) ==
  LET arr == SelectSeq(rows, IsDecrease)
  IN Slice(ArraySort(arr, [i \in DOMAIN arr |-> PosDelta(arr[i])]), 3)

DeltaReport(rA, rB, mediumThr, highThr, sortMode, driversOnly) ==
  LET baseRows == BaseRows(rA, rB, mediumThr, highThr)
      rows == FilterRows(SortRows(MarkRows(baseRows), sortMode), driversOnly)
  IN [totalDelta |-> rB.totalCost - rA.totalCost,
      rows |-> rows,
      increases |-> Increases(rows),
      decreases |-> Decreases(rows),
      aTotal |-> rA.totalCost,
      bTotal |-> rB.totalCost]

DeltaMemo(cm, rA, rB, mediumThr, highThr, sortMode, driversOnly) ==
  IF ~cm \/ rA = Null \/ rB = Null THEN Null
  ELSE IF MissingInB(rA, rB) THEN Threw
  ELSE DeltaReport(rA, rB, mediumThr, highThr, sortMode, driversOnly)

------------------------------------------------------------------------------
(* Selections: defaults, the reading of a persisted record, a band edit *)

Bands == {"LOW", "MEDIUM", "HIGH"}

buildDefaultSelections ==
  [id \in CategoryIds |-> [categoryId |-> id, band |-> "MEDIUM"]]

\* What JSON.parse may hand over for one key of the persisted record: an
\* object with a categoryId and a band, or anything else.
EntryObject(id, band) == [kind |-> "object", categoryId |-> id, band |-> band]

EntryOther == [kind |-> "other"]

\* What readJson returns: null (nothing stored, or no JSON), a value that is
\* no object, or an object holding entries under some keys.
NotAnObject == [kind |-> "other"]

PersistedObject(entries) == [kind |-> "object", entries |-> entries]

\* Mutant: the categoryId of an entry not compared with the key it is stored
\* under.
IsSelection_AnyId(maybe, id) ==
  /\ maybe.kind = "object"
  /\ maybe.band \in Bands

IsSelection(maybe, id) ==
  /\ maybe.kind = "object"
  /\ maybe.band \in Bands
  /\ maybe.categoryId = id

normalizeSelections(input, fallback) ==
  IF input = Null \/ input.kind # "object" THEN fallback
  ELSE [id \in CategoryIds |->
          IF id \in DOMAIN input.entries /\ IsSelection(input.entries[id], id)
          THEN [categoryId |-> input.entries[id].categoryId,
                band |-> input.entries[id].band]
          ELSE fallback[id]]

\* prev => ({ ...prev, [categoryId]: { ...prev[categoryId], band } })
SetBand(prev, categoryId, band) ==
  [prev EXCEPT ![categoryId] = [prev[categoryId] EXCEPT !.band = band]]

\* Object.values of a selection record: its entries in key insertion order,
\* which buildDefaultSelections makes the catalog order and the spreads keep.
ObjectValues(sel) == [i \in DOMAIN VMX_CATEGORIES |-> sel[VMX_CATEGORIES[i]]]

------------------------------------------------------------------------------
(* ScenarioEvaluator and the error boundary around it *)

\* Rates per <<category, band>>, in cost units per square foot.  Region B's
\* benchmark lacks the rate of <<c4, HIGH>>.
BandRate(band, low, medium, high) ==
  IF band = "LOW" THEN low ELSE IF band = "MEDIUM" THEN medium ELSE high

BenchmarkA == [p \in CategoryIds \X Bands |-> BandRate(p[2], 0, 1, 2)]

BenchmarkB ==
  [p \in (CategoryIds \X Bands) \ {<<"c4", "HIGH">>} |-> BandRate(p[2], 1, 1, 3)]

Return(result) == [kind |-> "return", result |-> result]

Raise(message) == [kind |-> "raise", isError |-> TRUE, message |-> message]

\* exactly one selection per catalog category
OnePerCategory(selections) ==
  /\ Len(selections) = Len(VMX_CATEGORIES)
  /\ \A id \in CategoryIds :
       Cardinality({i \in DOMAIN selections : selections[i].categoryId = id}) = 1

BandOf(selections, id) ==
  selections[CHOOSE i \in DOMAIN selections : selections[i].categoryId = id].band

\* ScenarioEvaluator: a complete result, or an error raised.
computeScenarioResult(area, benchmark, selections) ==
  IF area <= 0 THEN Raise("ValidationError: area")
  ELSE IF ~OnePerCategory(selections) THEN Raise("ValidationError: selections")
  ELSE IF \E id \in CategoryIds : <<id, BandOf(selections, id)>> \notin DOMAIN benchmark
    THEN Raise("MissingRateError")
  ELSE Return(ScenarioResult(VMX_CATEGORIES,
                [id \in CategoryIds |-> area * benchmark[<<id, BandOf(selections, id)>>]]))

\* A non-null error string.
ErrorMessage(text) == [kind |-> "message", text |-> text]

\* Mutant: the message dropped, a raise leaves neither a result nor an
\* error.
computeSafe_Silent(area, benchmark, selections) ==
  LET outcome == computeScenarioResult(area, benchmark, selections)
  IN IF outcome.kind = "return"
     THEN [result |-> outcome.result, error |-> Null]
     ELSE [result |-> Null, error |-> Null]

computeSafe(area, benchmark, selections) ==
  LET outcome == computeScenarioResult(area, benchmark, selections)
  IN IF outcome.kind = "return"
     THEN [result |-> outcome.result, error |-> Null]
     ELSE [result |-> Null,
           error |-> ErrorMessage(IF outcome.isError THEN outcome.message
                                  ELSE "Unknown error")]

computedA(area, sA) == computeSafe(area, BenchmarkA, ObjectValues(sA))

\* Mutant: scenario B evaluated whatever compare mode says.
computedB_Always(cm, area, sB) == computeSafe(area, BenchmarkB, ObjectValues(sB))

computedB(cm, area, sB) ==
  IF ~cm THEN [result |-> Null, error |-> Null]
  ELSE computeSafe(area, BenchmarkB, ObjectValues(sB))

------------------------------------------------------------------------------
(* Numbers read from text: a stored item, the value of an input field *)

\* Number(text): a finite number, or not one.
Num(n) == [finite |-> TRUE, value |-> n]

NotANumber == [finite |-> FALSE]

\* raw ? Number(raw) : 0.015, kept if finite: the threshold a stored item
\* gives, `raw` being null or what Number makes of the stored text.
LoadThr(raw, default) ==
  IF raw = Null THEN default
  ELSE IF raw.finite THEN raw.value ELSE default

\* The area a stored item gives: finite and positive, or the default.
LoadArea(raw) ==
  IF raw = Null THEN DefaultAreaSqft
  ELSE IF raw.finite /\ raw.value > 0 THEN raw.value ELSE DefaultAreaSqft

\* The text of a threshold field is a percentage; n is Number(text) in
\* tenths of a percent, so that n / 100 of the source is n / ThrDen here.
inputToPct(v) == IF v.finite THEN v.value ELSE 0

Max(x, y) == IF x >= y THEN x ELSE y

------------------------------------------------------------------------------
(* Inputs *)

\* Scenario A's categories cost nothing or one unit each, scenario B's
\* anything up to MaxCost, so that a delta takes every sign and several
\* magnitudes and A's total ranges from 0 over a fraction of one currency
\* unit to several.
CostsA == [CategoryIds -> {0, 1}]

CostsB == [CategoryIds -> 0..MaxCost]

\* The results ScenarioEvaluator produces: one entry per catalog category,
\* in catalog order.
ValidResultsA == {ScenarioResult(VMX_CATEGORIES, c) : c \in CostsA}

ValidResultsB == {ScenarioResult(VMX_CATEGORIES, c) : c \in CostsB}

Reverse(s) == [i \in DOMAIN s |-> s[Len(s) + 1 - i]]

DropLast(s) == SubSeq(s, 1, Len(s) - 1)

\* Results outside ScenarioEvaluator's contract: categories out of catalog
\* order, or a category missing.
AnyResultsA ==
  {ScenarioResult(ids, c) :
     ids \in {VMX_CATEGORIES, Reverse(VMX_CATEGORIES), DropLast(VMX_CATEGORIES)},
     c \in CostsA}

AnyResultsB ==
  {ScenarioResult(ids, c) :
     ids \in {VMX_CATEGORIES, DropLast(VMX_CATEGORIES)},
     c \in CostsB}

\* <<medium, high>> thresholds read from storage at start-up: the defaults,
\* and stored values (any finite number is accepted as stored).
ThrPairs ==
  {<<DefaultMediumThr, DefaultHighThr>>, <<0, 500>>, <<500, 600>>,
   <<1000, 500>>}

SortModes == {"impact", "category"}

\* What storage may hold under a selections key: nothing, no object, and
\* objects with every entry valid, with one valid entry, with an entry
\* stored under another category's key, and with a band outside the three,
\* an entry that is no object and a key outside the catalog.
PersistedSelections ==
  {Null,
   NotAnObject,
   PersistedObject([id \in CategoryIds |-> EntryObject(id, "HIGH")]),
   PersistedObject("c1" :> EntryObject("c1", "LOW")),
   PersistedObject("c1" :> EntryObject("c2", "LOW") @@ "c2" :> EntryObject("c2", "HIGH")),
   PersistedObject("c1" :> EntryObject("c1", "EXTREME") @@ "c3" :> EntryOther
                   @@ "zz" :> EntryObject("zz", "LOW"))}

\* What storage may hold under the area key, and what may be typed into the
\* area field (an emptied field reads 0).
StoredAreas == {Null, NotANumber} \cup {Num(n) : n \in 0..MaxArea}

AreaInputs == 0..MaxArea

\* What storage may hold under a threshold key: any text.
StoredThrs == {Null, NotANumber, Num(-500), Num(500)}

\* What may be typed into a threshold field.
ThrInputs == {NotANumber, Num(-500), Num(20), Num(500)}

\* Scenario B's result in the threshold sessions: every category at MaxCost.
ResultBMax == ScenarioResult(VMX_CATEGORIES, [id \in CategoryIds |-> MaxCost])

------------------------------------------------------------------------------
(* The host: first render, then the view handlers of the delta panel *)

Render ==
  DeltaMemo(compareMode, resultA, resultB, deltaMediumThr, deltaHighThr,
            deltaSort, deltaDriversOnly)

\* Compare mode on, the view as read from a fresh storage.
InitView ==
  /\ compareMode = TRUE
  /\ deltaSort = "impact"
  /\ deltaDriversOnly = FALSE

\* The two results given; behind them default selections and area, and no
\* error.
InitHostIdle ==
  /\ areaSqft = DefaultAreaSqft
  /\ selA = buildDefaultSelections
  /\ selB = buildDefaultSelections
  /\ errorA = Null
  /\ errorB = Null
  /\ edits = 0

Init ==
  /\ InitView
  /\ InitHostIdle
  /\ resultA \in ValidResultsA
  /\ resultB \in ValidResultsB
  /\ \E thr \in ThrPairs : deltaMediumThr = thr[1] /\ deltaHighThr = thr[2]
  /\ delta = Render

InitAny ==
  /\ InitView
  /\ InitHostIdle
  /\ resultA \in AnyResultsA
  /\ resultB \in AnyResultsB
  /\ deltaMediumThr = DefaultMediumThr
  /\ deltaHighThr = DefaultHighThr
  /\ delta = Render

\* The delta panel's controls are rendered only with a report on screen.
PanelShown == compareMode /\ delta # Null /\ delta # Threw

SetDeltaSort(mode) ==
  /\ PanelShown
  /\ mode # deltaSort
  /\ deltaSort' = mode
  /\ delta' = DeltaMemo(compareMode, resultA, resultB, deltaMediumThr,
                        deltaHighThr, mode, deltaDriversOnly)
  /\ UNCHANGED <<compareMode, resultA, resultB, deltaMediumThr, deltaHighThr,
                 deltaDriversOnly, hostVars>>

SetDeltaDriversOnly(checked) ==
  /\ PanelShown
  /\ checked # deltaDriversOnly
  /\ deltaDriversOnly' = checked
  /\ delta' = DeltaMemo(compareMode, resultA, resultB, deltaMediumThr,
                        deltaHighThr, deltaSort, checked)
  /\ UNCHANGED <<compareMode, resultA, resultB, deltaMediumThr, deltaHighThr,
                 deltaSort, hostVars>>

Next ==
  \/ \E mode \in SortModes : SetDeltaSort(mode)
  \/ \E checked \in BOOLEAN : SetDeltaDriversOnly(checked)

\* compare on the results ScenarioEvaluator produces
Spec == Init /\ [][Next]_vars

\* compare on any pair of category lists
SpecAny == InitAny /\ [][Next]_vars

------------------------------------------------------------------------------
(* The host: the threshold fields of the delta panel *)

\* The thresholds as the start-up reads them from storage.
InitThr ==
  /\ InitView
  /\ InitHostIdle
  /\ resultA \in ValidResultsA
  /\ resultB = ResultBMax
  /\ \E rawMedium \in StoredThrs, rawHigh \in StoredThrs :
       /\ deltaMediumThr = LoadThr(rawMedium, DefaultMediumThr)
       /\ deltaHighThr = LoadThr(rawHigh, DefaultHighThr)
  /\ delta = Render

MediumThrChange(value) ==
  LET next == Max(0, inputToPct(value))
      high == IF deltaHighThr < next THEN next ELSE deltaHighThr
  IN /\ PanelShown
     /\ deltaMediumThr' = next
     /\ deltaHighThr' = high
     /\ delta' = DeltaMemo(compareMode, resultA, resultB, next, high,
                           deltaSort, deltaDriversOnly)
     /\ UNCHANGED <<compareMode, resultA, resultB, deltaSort, deltaDriversOnly,
                    hostVars>>

HighThrChange(value) ==
  LET next == Max(deltaMediumThr, inputToPct(value))
  IN /\ PanelShown
     /\ deltaHighThr' = next
     /\ delta' = DeltaMemo(compareMode, resultA, resultB, deltaMediumThr, next,
                           deltaSort, deltaDriversOnly)
     /\ UNCHANGED <<compareMode, resultA, resultB, deltaMediumThr, deltaSort,
                    deltaDriversOnly, hostVars>>

NextThr ==
  \/ \E value \in ThrInputs : MediumThrChange(value)
  \/ \E value \in ThrInputs : HighThrChange(value)

\* start-up and any sequence of threshold edits
SpecThr == InitThr /\ [][NextThr]_vars

------------------------------------------------------------------------------
(* The host: selections, area and compare mode, with both evaluations *)

\* computedA, computedB and delta of the render that follows a state change.
Rerender(cm, area, sA, sB) ==
  LET cA == computedA(area, sA)
      cB == computedB(cm, area, sB)
  IN /\ resultA' = cA.result
     /\ errorA' = cA.error
     /\ resultB' = cB.result
     /\ errorB' = cB.error
     /\ delta' = DeltaMemo(cm, cA.result, cB.result, deltaMediumThr,
                           deltaHighThr, deltaSort, deltaDriversOnly)

\* The first render, from what storage holds.
InitHost ==
  /\ \E savedA \in PersistedSelections, savedB \in PersistedSelections :
       /\ selA = normalizeSelections(savedA, buildDefaultSelections)
       /\ selB = normalizeSelections(savedB, buildDefaultSelections)
  /\ \E rawArea \in StoredAreas : areaSqft = LoadArea(rawArea)
  /\ compareMode \in BOOLEAN
  /\ deltaMediumThr = DefaultMediumThr
  /\ deltaHighThr = DefaultHighThr
  /\ deltaSort = "impact"
  /\ deltaDriversOnly = FALSE
  /\ edits = 0
  /\ resultA = computedA(areaSqft, selA).result
  /\ errorA = computedA(areaSqft, selA).error
  /\ resultB = computedB(compareMode, areaSqft, selB).result
  /\ errorB = computedB(compareMode, areaSqft, selB).error
  /\ delta = Render

SetBandA(categoryId, band) ==
  /\ edits < MaxEdits
  /\ selA[categoryId].band # band
  /\ selA' = SetBand(selA, categoryId, band)
  /\ edits' = edits + 1
  /\ Rerender(compareMode, areaSqft, selA', selB)
  /\ UNCHANGED <<compareMode, areaSqft, selB, deltaMediumThr, deltaHighThr,
                 deltaSort, deltaDriversOnly>>

\* Scenario B's matrix is rendered in compare mode only.
SetBandB(categoryId, band) ==
  /\ compareMode
  /\ edits < MaxEdits
  /\ selB[categoryId].band # band
  /\ selB' = SetBand(selB, categoryId, band)
  /\ edits' = edits + 1
  /\ Rerender(compareMode, areaSqft, selA, selB')
  /\ UNCHANGED <<compareMode, areaSqft, selA, deltaMediumThr, deltaHighThr,
                 deltaSort, deltaDriversOnly>>

SetAreaSqft(area) ==
  /\ area # areaSqft
  /\ areaSqft' = area
  /\ Rerender(compareMode, area, selA, selB)
  /\ UNCHANGED <<compareMode, selA, selB, edits, deltaMediumThr, deltaHighThr,
                 deltaSort, deltaDriversOnly>>

SetCompareMode(checked) ==
  /\ checked # compareMode
  /\ compareMode' = checked
  /\ Rerender(checked, areaSqft, selA, selB)
  /\ UNCHANGED <<areaSqft, selA, selB, edits, deltaMediumThr, deltaHighThr,
                 deltaSort, deltaDriversOnly>>

NextHost ==
  \/ \E categoryId \in CategoryIds, band \in Bands : SetBandA(categoryId, band)
  \/ \E categoryId \in CategoryIds, band \in Bands : SetBandB(categoryId, band)
  \/ \E area \in AreaInputs : SetAreaSqft(area)
  \/ \E checked \in BOOLEAN : SetCompareMode(checked)

\* start-up from storage, then band, area and compare-mode changes
SpecHost == InitHost /\ [][NextHost]_vars

------------------------------------------------------------------------------
(* What the properties are stated in: the inputs read directly *)

IsReport(d) == d # Null /\ d # Threw

IdsOf(result) == {result.categories[i].categoryId : i \in DOMAIN result.categories}

CostOf(result, id) == FindCategory(result.categories, id).cost

\* costB - costA of a category of resultA that resultB has too
CatDelta(id) == CostOf(resultB, id) - CostOf(resultA, id)

Changed == {id \in IdsOf(resultA) : CatDelta(id) # 0}

\* x ranks before y under the deltas d: larger |deltaCost|, ties by
\* catalog order
RanksBefore(d, x, y) ==
  \/ Abs(d[x]) > Abs(d[y])
  \/ Abs(d[x]) = Abs(d[y]) /\ CategoryOrder(x) < CategoryOrder(y)

\* the first min(3, k) of the k changed categories in that ranking
ExpectedDrivers ==
  LET changed == Changed
      d == [id \in changed |-> CatDelta(id)]
  IN {id \in changed :
        Cardinality({x \in changed : RanksBefore(d, x, id)}) < 3}

RowIds(rows) == [i \in DOMAIN rows |-> rows[i].categoryId]

FracEq(f, g) == f[1] * g[2] = g[1] * f[2]

ThresholdsValid == 0 <= deltaMediumThr /\ deltaMediumThr <= deltaHighThr

\* `list` is the up-to-3 categories of S with the largest sign * deltaCost,
\* largest first.
TopListOf(list, S, sign) ==
  /\ Len(list) = Min(3, Cardinality(S))
  /\ \A i \in DOMAIN list :
       /\ list[i].categoryId \in S
       /\ list[i].deltaCost = CatDelta(list[i].categoryId)
       /\ \A j \in DOMAIN list :
            i < j => /\ list[i].categoryId # list[j].categoryId
                     /\ sign * list[i].deltaCost >= sign * list[j].deltaCost
       /\ \A id \in S :
            (\A j \in DOMAIN list : list[j].categoryId # id)
              => sign * list[i].deltaCost >= sign * CatDelta(id)

\* Every catalog category has one entry in `sel`, whose categoryId is its
\* key and whose band is one of the three; so has the list handed to the
\* evaluator.
WellFormedSelections(sel) ==
  /\ DOMAIN sel = CategoryIds
  /\ \A id \in CategoryIds :
       /\ sel[id].categoryId = id
       /\ sel[id].band \in Bands
  /\ OnePerCategory(ObjectValues(sel))

RECURSIVE SumDeltaCost(_)
SumDeltaCost(rows) ==
  IF rows = <<>> THEN 0 ELSE rows[1].deltaCost + SumDeltaCost(Tail(rows))

------------------------------------------------------------------------------
(* Properties *)

\* C1 (as claimed): increases is the up-to-3 categories with deltaCost > 0
\* taken over all categories, largest first, decreases the up-to-3 with
\* deltaCost < 0, most negative first, and both lists are the same with
\* driversOnly on and off.
C1_TopListsFromAllRows ==
  IsReport(delta) =>
    /\ TopListOf(delta.increases, {id \in IdsOf(resultA) : CatDelta(id) > 0}, 1)
    /\ TopListOf(delta.decreases, {id \in IdsOf(resultA) : CatDelta(id) < 0}, -1)
    /\ deltaDriversOnly =>
         LET full == DeltaMemo(compareMode, resultA, resultB, deltaMediumThr,
                               deltaHighThr, deltaSort, FALSE)
         IN /\ RowIds(delta.increases) = RowIds(full.increases)
            /\ RowIds(delta.decreases) = RowIds(full.decreases)

\* C2 (as claimed): whenever resultA and resultB do not list the same set
\* of categories, the comparison throws and yields no report.
C2_MismatchThrows ==
  (compareMode /\ IdsOf(resultA) # IdsOf(resultB)) => delta = Threw

\* C3: the rows marked isTopDriver are exactly the first min(3, k) of the k
\* changed categories ranked by |deltaCost| descending, ties by catalog
\* order; so at most 3 rows are drivers, no zero-delta row is a driver, and
\* no non-driver row has a strictly larger |deltaCost| than a driver row.
C3_TopDrivers ==
  IsReport(delta) =>
    LET rows == delta.rows
        drivers == {i \in DOMAIN rows : rows[i].isTopDriver}
        expected == ExpectedDrivers
    IN /\ \A i \in DOMAIN rows :
            rows[i].isTopDriver <=> rows[i].categoryId \in expected
       /\ ~deltaDriversOnly =>
            {rows[i].categoryId : i \in drivers} = expected
       /\ Cardinality(expected) = Min(3, Cardinality(Changed))
       /\ Cardinality(drivers) <= 3
       /\ \A i \in drivers : rows[i].deltaCost # 0
       /\ \A i \in drivers : \A j \in DOMAIN rows \ drivers :
            Abs(rows[j].deltaCost) <= Abs(rows[i].deltaCost)

\* C3 witness: four changed categories, the third and fourth place tied:
\* a driver and a non-driver row with the same non-zero |deltaCost|.
C3_Witness ==
  /\ IsReport(delta)
  /\ \E i, j \in DOMAIN delta.rows :
       /\ delta.rows[i].isTopDriver
       /\ ~delta.rows[j].isTopDriver
       /\ delta.rows[j].deltaCost # 0
       /\ Abs(delta.rows[i].deltaCost) = Abs(delta.rows[j].deltaCost)
  /\ \E i \in DOMAIN delta.rows :
       delta.rows[i].isTopDriver /\ Abs(delta.rows[i].deltaCost) > 1

\* C4: with 0 <= mediumThreshold <= highThreshold, a driver row whose
\* threshold class is low is reported medium, so every driver row is medium
\* or high; a driver classed medium or high, and every non-driver row, is
\* reported with its threshold class.
C4_HeatUpgrade ==
  (IsReport(delta) /\ ThresholdsValid) =>
    \A i \in DOMAIN delta.rows :
      LET r == delta.rows[i]
          class == IF FracGeq(r.absFracOfATotal, deltaHighThr) THEN "high"
                   ELSE IF FracGeq(r.absFracOfATotal, deltaMediumThr) THEN "medium"
                   ELSE "low"
      IN /\ r.isTopDriver => r.heat \in {"medium", "high"}
         /\ (r.isTopDriver /\ class = "low") => r.heat = "medium"
         /\ (~r.isTopDriver \/ class # "low") => r.heat = class

\* C4 witness: a driver row below the medium threshold, reported medium,
\* beside a driver row at or above the high threshold.
C4_Witness ==
  /\ IsReport(delta)
  /\ ThresholdsValid
  /\ \E i, j \in DOMAIN delta.rows :
       /\ delta.rows[i].isTopDriver
       /\ ~FracGeq(delta.rows[i].absFracOfATotal, deltaMediumThr)
       /\ delta.rows[i].heat = "medium"
       /\ delta.rows[j].isTopDriver
       /\ FracGeq(delta.rows[j].absFracOfATotal, deltaHighThr)

\* C5: for every non-driver row, heat is high iff impactFraction >=
\* highThreshold, medium iff mediumThreshold <= impactFraction <
\* highThreshold, and low otherwise.
C5_HeatMonotone ==
  IsReport(delta) =>
    \A i \in DOMAIN delta.rows :
      LET r == delta.rows[i]
          geHigh == r.absFracOfATotal[1] * ThrDen >= deltaHighThr * r.absFracOfATotal[2]
          geMedium == r.absFracOfATotal[1] * ThrDen >= deltaMediumThr * r.absFracOfATotal[2]
      IN ~r.isTopDriver =>
           /\ r.heat = "high" <=> geHigh
           /\ r.heat = "medium" <=> (geMedium /\ ~geHigh)
           /\ r.heat = "low" <=> (~geMedium /\ ~geHigh)

\* C5 witness: a changed non-driver row exactly at the medium threshold,
\* reported medium, below a high threshold that a driver row reaches.
C5_Witness ==
  /\ IsReport(delta)
  /\ deltaMediumThr < deltaHighThr
  /\ \E i, j \in DOMAIN delta.rows :
       /\ ~delta.rows[i].isTopDriver
       /\ delta.rows[i].deltaCost # 0
       /\ delta.rows[i].absFracOfATotal[1] * ThrDen
            = deltaMediumThr * delta.rows[i].absFracOfATotal[2]
       /\ delta.rows[i].heat = "medium"
       /\ delta.rows[j].isTopDriver
       /\ delta.rows[j].heat = "high"

\* C6: with sortMode = impact the rows are non-increasing in |deltaCost|,
\* and rows of equal |deltaCost| are in catalog order.
C6_ImpactOrder ==
  (IsReport(delta) /\ deltaSort = "impact") =>
    \A i, j \in DOMAIN delta.rows :
      i < j =>
        /\ Abs(delta.rows[i].deltaCost) >= Abs(delta.rows[j].deltaCost)
        /\ Abs(delta.rows[i].deltaCost) = Abs(delta.rows[j].deltaCost)
             => CategoryOrder(delta.rows[i].categoryId)
                  < CategoryOrder(delta.rows[j].categoryId)

\* C6 witness: impact order differs from catalog order, with a tie: a
\* decrease of magnitude 1 leads the catalog, larger increases follow.
C6_Witness ==
  /\ IsReport(delta)
  /\ deltaSort = "impact"
  /\ ~deltaDriversOnly
  /\ RowIds(delta.rows) # VMX_CATEGORIES
  /\ CatDelta(VMX_CATEGORIES[1]) = -1
  /\ \E i \in DOMAIN delta.rows :
       /\ i + 1 \in DOMAIN delta.rows
       /\ delta.rows[i].deltaCost # 0
       /\ Abs(delta.rows[i].deltaCost) = Abs(delta.rows[i + 1].deltaCost)

\* C7: with sortMode = category the rows are in catalog order, whatever the
\* deltas and whatever the order of resultA.categories: their catalog
\* positions increase strictly, and with every catalog category in resultA
\* and no filter the rows' categories are the catalog itself.
C7_CategoryOrder ==
  (IsReport(delta) /\ deltaSort = "category") =>
    /\ \A i, j \in DOMAIN delta.rows :
         i < j => CategoryOrder(delta.rows[i].categoryId)
                    < CategoryOrder(delta.rows[j].categoryId)
    /\ (~deltaDriversOnly /\ IdsOf(resultA) = CategoryIds)
         => RowIds(delta.rows) = VMX_CATEGORIES

\* C7 witness: resultA lists the catalog backwards, the deltas differ in
\* magnitude, and the rows are the catalog.
C7_Witness ==
  /\ IsReport(delta)
  /\ deltaSort = "category"
  /\ ~deltaDriversOnly
  /\ RowIds(resultA.categories) = Reverse(VMX_CATEGORIES)
  /\ RowIds(delta.rows) = VMX_CATEGORIES
  /\ Abs(delta.rows[1].deltaCost) < Abs(delta.rows[2].deltaCost)

\* C8: with driversOnly = true every returned row is a driver, the returned
\* rows are the drivers of the full row set, and each returned row carries
\* the isTopDriver and heat it has with driversOnly = false.
C8_DriversOnly ==
  (IsReport(delta) /\ deltaDriversOnly) =>
    LET full == DeltaMemo(compareMode, resultA, resultB, deltaMediumThr,
                          deltaHighThr, deltaSort, FALSE).rows
        expected == ExpectedDrivers
    IN /\ \A i \in DOMAIN delta.rows : delta.rows[i].isTopDriver
       /\ {delta.rows[i].categoryId : i \in DOMAIN delta.rows} = expected
       /\ Len(delta.rows) = Cardinality(expected)
       /\ {delta.rows[i] : i \in DOMAIN delta.rows}
            = {full[i] : i \in {k \in DOMAIN full : full[k].isTopDriver}}

\* C8 witness: the filter drops a changed row and an unchanged one.
C8_Witness ==
  /\ IsReport(delta)
  /\ deltaDriversOnly
  /\ Len(delta.rows) = 3
  /\ Cardinality(Changed) = 4

\* C9 (as claimed): deltaCost = costB - costA, direction follows its sign,
\* and impactFraction = |deltaCost| / max(resultA.totalCost, 1).
C9_ImpactOverMax ==
  IsReport(delta) =>
    \A i \in DOMAIN delta.rows :
      LET r == delta.rows[i]
          floor == IF resultA.totalCost > CostScale THEN resultA.totalCost
                   ELSE CostScale
      IN /\ r.deltaCost = CatDelta(r.categoryId)
         /\ r.direction = "increase" <=> r.deltaCost > 0
         /\ r.direction = "decrease" <=> r.deltaCost < 0
         /\ r.direction = "flat" <=> r.deltaCost = 0
         /\ FracEq(r.absFracOfATotal, <<Abs(CatDelta(r.categoryId)), floor>>)

\* C9 (amended): deltaCost = costB - costA, direction follows its sign, and
\* impactFraction = |deltaCost| / resultA.totalCost when resultA.totalCost
\* > 0, |deltaCost| / 1 when it is 0.
C9_ImpactOverTotal ==
  IsReport(delta) =>
    \A i \in DOMAIN delta.rows :
      LET r == delta.rows[i]
          total == IF resultA.totalCost > 0 THEN resultA.totalCost
                   ELSE CostScale
      IN /\ r.deltaCost = CatDelta(r.categoryId)
         /\ r.direction = "increase" <=> r.deltaCost > 0
         /\ r.direction = "decrease" <=> r.deltaCost < 0
         /\ r.direction = "flat" <=> r.deltaCost = 0
         /\ r.direction \in {"increase", "decrease", "flat"}
         /\ FracEq(r.absFracOfATotal, <<Abs(CatDelta(r.categoryId)), total>>)

\* C9 witness: resultA's total lies strictly between 0 and 1, with an
\* increase, a decrease and a flat row.
C9_Witness ==
  /\ IsReport(delta)
  /\ 0 < resultA.totalCost
  /\ resultA.totalCost < CostScale
  /\ \E i, j, k \in DOMAIN delta.rows :
       /\ delta.rows[i].direction = "increase"
       /\ delta.rows[j].direction = "decrease"
       /\ delta.rows[k].direction = "flat"

\* C10: over the same category set, each row's deltaCost in compare(A, B)
\* is the negation of its category's deltaCost in compare(B, A).
C10_Antisymmetry ==
  IsReport(delta) =>
    LET rev == DeltaMemo(compareMode, resultB, resultA, deltaMediumThr,
                         deltaHighThr, deltaSort, deltaDriversOnly)
    IN /\ IsReport(rev)
       /\ \A i \in DOMAIN delta.rows :
            \E j \in DOMAIN rev.rows :
              rev.rows[j].categoryId = delta.rows[i].categoryId
       /\ \A i \in DOMAIN delta.rows : \A j \in DOMAIN rev.rows :
            rev.rows[j].categoryId = delta.rows[i].categoryId
              => delta.rows[i].deltaCost = -rev.rows[j].deltaCost

\* C10 witness: a report with an increase of 2 and a decrease.
C10_Witness ==
  /\ IsReport(delta)
  /\ IdsOf(resultA) = IdsOf(resultB)
  /\ \E i, j \in DOMAIN delta.rows :
       delta.rows[i].deltaCost = 2 /\ delta.rows[j].deltaCost < 0

\* C11: computeSafe lets no evaluator failure out: where computeScenarioResult
\* returns, the scenario holds that result and a null error; where it
\* raises, the scenario holds a null result and the message as error; a
\* non-null result never comes with a non-null error.  Scenario B is
\* evaluated in compare mode only.
C11_ErrorBoundary ==
  LET outA == computeScenarioResult(areaSqft, BenchmarkA, ObjectValues(selA))
      outB == computeScenarioResult(areaSqft, BenchmarkB, ObjectValues(selB))
  IN /\ outA.kind = "return" => (resultA = outA.result /\ errorA = Null)
     /\ outA.kind = "raise"
          => (resultA = Null /\ errorA = ErrorMessage(outA.message))
     /\ ~(resultA # Null /\ errorA # Null)
     /\ (compareMode /\ outB.kind = "return")
          => (resultB = outB.result /\ errorB = Null)
     /\ (compareMode /\ outB.kind = "raise")
          => (resultB = Null /\ errorB = ErrorMessage(outB.message))
     /\ ~(resultB # Null /\ errorB # Null)

\* C11 witness: after a band edit in compare mode, scenario A's evaluation
\* returned and scenario B's raised for the rate its benchmark lacks.
C11_Witness ==
  /\ compareMode
  /\ edits > 0
  /\ resultA # Null
  /\ errorA = Null
  /\ resultB = Null
  /\ errorB = ErrorMessage("MissingRateError")

\* C12 (as claimed): whenever a delta report is computed, from start-up on
\* and after any sequence of medium-threshold and high-threshold edits, its
\* thresholds satisfy 0 <= mediumThreshold <= highThreshold.
C12_ThresholdsOrdered ==
  IsReport(delta) => (0 <= deltaMediumThr /\ deltaMediumThr <= deltaHighThr)

\* C13: each scenario's selection record has exactly one entry per catalog
\* category, with categoryId equal to its key and a band of LOW, MEDIUM or
\* HIGH, in every state; normalizeSelections gives such a record for every
\* persisted input, the default itself for null or a non-object, and entry
\* by entry either the valid persisted entry or the default one.
C13_SelectionsWellFormed ==
  /\ WellFormedSelections(selA)
  /\ WellFormedSelections(selB)
  /\ \A input \in PersistedSelections :
       LET out == normalizeSelections(input, buildDefaultSelections)
       IN /\ WellFormedSelections(out)
          /\ (input = Null \/ input = NotAnObject) => out = buildDefaultSelections
          /\ \A id \in CategoryIds :
               \/ out[id] = buildDefaultSelections[id]
               \/ /\ input.kind = "object"
                  /\ id \in DOMAIN input.entries
                  /\ input.entries[id] = EntryObject(id, out[id].band)

\* C13 witness: scenario B's record read from an object with an entry under
\* another category's key (c1 falls back, c2 is taken), scenario A's after
\* two band edits.
C13_Witness ==
  /\ edits >= 2
  /\ selA["c3"].band = "LOW"
  /\ selA["c4"].band = "HIGH"
  /\ selB["c1"].band = "MEDIUM"
  /\ selB["c2"].band = "HIGH"

\* C14: a delta report exists only in compare mode with both results
\* present; with compare mode off scenario B has neither result nor error
\* and delta is null; with an error in either scenario delta is null.
C14_DeltaNeedsBothResults ==
  /\ delta # Null => (compareMode /\ resultA # Null /\ resultB # Null)
  /\ ~compareMode => (resultB = Null /\ errorB = Null /\ delta = Null)
  /\ (errorA # Null \/ errorB # Null) => delta = Null
  /\ (compareMode /\ resultA # Null /\ resultB # Null) => IsReport(delta)

\* C14 witness: compare mode switched off after an edit of scenario B, with
\* scenario A evaluated.
C14_Witness ==
  /\ ~compareMode
  /\ edits > 0
  /\ selB # buildDefaultSelections
  /\ selB["c1"].band = "LOW"
  /\ resultA # Null
  /\ delta = Null

\* C15: with sortMode = impact and driversOnly = false the driver rows are
\* a prefix of the rows: the first d rows (d <= 3) are the drivers, in the
\* order of the driver ranking (|deltaCost| descending, ties by catalog
\* order), and every later row is no driver.
C15_DriversPrefix ==
  (IsReport(delta) /\ deltaSort = "impact" /\ ~deltaDriversOnly) =>
    LET rows == delta.rows
        d == Cardinality({i \in DOMAIN rows : rows[i].isTopDriver})
        changed == Changed
        deltas == [id \in changed |-> CatDelta(id)]
        ranking == Slice(ByAbs(BaseRows(resultA, resultB, deltaMediumThr,
                                        deltaHighThr)), 3)
    IN /\ d <= 3
       /\ \A i \in DOMAIN rows : rows[i].isTopDriver <=> i <= d
       /\ \A i, j \in 1..d :
            i < j => RanksBefore(deltas, rows[i].categoryId, rows[j].categoryId)
       /\ RowIds(SubSeq(rows, 1, d)) = RowIds(ranking)

\* C15 witness: four changed categories, the largest change on the last
\* catalog category, so the three drivers lead in an order that is not the
\* catalog's and a changed non-driver follows.
C15_Witness ==
  /\ IsReport(delta)
  /\ deltaSort = "impact"
  /\ ~deltaDriversOnly
  /\ Len(delta.rows) = 4
  /\ delta.rows[1].categoryId = VMX_CATEGORIES[4]
  /\ delta.rows[3].isTopDriver
  /\ ~delta.rows[4].isTopDriver
  /\ delta.rows[4].deltaCost # 0

\* C16: when both results have sum(cost) = totalCost and list the same
\* categories, and driversOnly = false, the report has exactly one row per
\* category under either sortMode, and totalDelta = resultB.totalCost -
\* resultA.totalCost is the sum of deltaCost over the rows.
C16_TotalDeltaIsRowSum ==
  (/\ IsReport(delta)
   /\ ~deltaDriversOnly
   /\ SumCost(resultA.categories) = resultA.totalCost
   /\ SumCost(resultB.categories) = resultB.totalCost
   /\ IdsOf(resultA) = IdsOf(resultB)) =>
    /\ Len(delta.rows) = Cardinality(IdsOf(resultA))
    /\ {delta.rows[i].categoryId : i \in DOMAIN delta.rows} = IdsOf(resultA)
    /\ delta.totalDelta = resultB.totalCost - resultA.totalCost
    /\ delta.totalDelta = SumDeltaCost(delta.rows)

\* C16 witness: category order chosen, increases and a decrease that do not
\* cancel.
C16_Witness ==
  /\ IsReport(delta)
  /\ ~deltaDriversOnly
  /\ deltaSort = "category"
  /\ delta.totalDelta > 0
  /\ \E i, j \in DOMAIN delta.rows :
       delta.rows[i].deltaCost > 0 /\ delta.rows[j].deltaCost < 0

====
